---- MODULE Spec2Model ----
(***************************************************************************)
(* A model of the trigram index of src/src/lib.rs: the posting store       *)
(* (HashMap<T, Posting>), its construction and insertion, prune, the query *)
(* engine and the two intersection primitives.                             *)
(*                                                                         *)
(* A byte string is a sequence of bytes (numbers 0..255), a Vec is a       *)
(* sequence, the HashMap is a function whose DOMAIN is the set of keys     *)
(* present. Rust indexes from 0 and TLA+ sequences from 1: the cursors     *)
(* (aidx, bidx, ridx, i) keep the code's 0-based values and a read of      *)
(* a[aidx] is written a[aidx + 1].                                         *)
(*                                                                         *)
(* A panic ends the process: the operators return a record with the field  *)
(* panic, and the action that called them sets panicked, after which no    *)
(* action is enabled.                                                      *)
(***************************************************************************)
EXTENDS Integers, Sequences, FiniteSets, TLC

VARIABLES idx, corpus, panicked, last, run

vars == <<idx, corpus, panicked, last, run>>

(***************************************************************************)
(* Bounds of the model.                                                    *)
(***************************************************************************)
\* the largest number of documents the index is given
MaxDocs == 3
\* the largest number of documents handed to new_with_documents
MaxInitDocs == 2
\* the longest query string
MaxQueryLen == 4
\* the longest trigram sequence handed to query_trigrams / filter /
\* add_trigrams / insert_trigrams
MaxTsLen == 2

\* the sequences handed to an intersection run step by step are drawn from
\* 0..MaxElems-1
MaxElems == 4

\* the bytes documents and queries are made of: 'a' and 'b'
Bytes == {97, 98}

\* every byte string of exactly n bytes
RECURSIVE StringsOfLen(_)
StringsOfLen(n) ==
    IF n = 0 THEN {<<>>}
    ELSE {Append(s, b) : s \in StringsOfLen(n - 1), b \in Bytes}

\* every byte string of at most n bytes
StringsUpTo(n) == UNION {StringsOfLen(k) : k \in 0..n}

\* the documents offered to the index: three that are too short to hold a
\* trigram ("", "a", "ab"), and "aaa", "aaaa" (one trigram, twice), "aaaab"
\* (two trigrams, one of them twice) and "baab" (two trigrams)
DocStrings ==
    { <<>>, <<97>>, <<97, 98>>,
      <<97, 97, 97>>, <<97, 97, 97, 97>>,
      <<97, 97, 97, 97, 98>>, <<98, 97, 97, 98>> }

\* the queries: every string of at most MaxQueryLen bytes
QueryStrings == StringsUpTo(MaxQueryLen)

\* prune's percent, an f64 in (0,1), as <<numerator, denominator>>. These
\* three are exact in f64 and so is their product with a small integer.
Percents == { <<1, 4>>, <<1, 2>>, <<3, 4>> }

(***************************************************************************)
(* Trigrams and postings                                                   *)
(***************************************************************************)
\* const ALL_DOC_IDS: T = T(0xFFFFFFFF). TLC's integers are 32-bit signed:
\* the u32 of all ones is written as the i32 with the same bits. A trigram
\* packed from three bytes is in 0..2^24 - 1 and never equals it.
ALL_DOC_IDS == -1

\* T((b0 as u32) << 16 | (b1 as u32) << 8 | b2 as u32)
Pack(b0, b1, b2) == b0 * 65536 + b1 * 256 + b2

\* enum Posting { Pruned, List(Vec<DocID>) }
Pruned == [tag |-> "Pruned", l |-> <<>>]
List(l) == [tag |-> "List", l |-> l]

\* the three-byte windows of a byte string
Windows(s) == {Pack(s[i], s[i + 1], s[i + 2]) : i \in 1..(Len(s) - 2)}

\* the elements of a sequence
Range(seq) == {seq[k] : k \in 1..Len(seq)}

\* the documents given as trigram sequences to add_trigrams and
\* insert_trigrams: no trigram, "bbb" twice, "aab" then "aaa"
TsDocuments ==
    { <<>>,
      <<Pack(98, 98, 98), Pack(98, 98, 98)>>,
      <<Pack(97, 97, 98), Pack(97, 97, 97)>> }

\* the trigrams the trigram inputs are drawn from: those of the documents
\* ("aaa", "aab", "baa", "bbb")
Trigrams ==
    UNION {Windows(s) : s \in DocStrings} \cup UNION {Range(ts) : ts \in TsDocuments}

\* the trigram sequences handed to the operations that take trigrams
RECURSIVE TsOfLen(_)
TsOfLen(n) ==
    IF n = 0 THEN {<<>>}
    ELSE {Append(ts, t) : ts \in TsOfLen(n - 1), t \in Trigrams}

TsInputs == UNION {TsOfLen(k) : k \in 0..MaxTsLen}

\* Vec::contains
Contains(seq, x) == \E k \in 1..Len(seq) : seq[k] = x

\* fn append_if_unique
append_if_unique(trigrams, t) ==
    IF ~Contains(trigrams, t) THEN Append(trigrams, t) ELSE trigrams

\* the loop of extract_trigrams from position i (0-based) on
RECURSIVE ExtractLoop(_, _, _)
ExtractLoop(bytes, i, trigrams) ==
    IF i > Len(bytes) - 3 THEN trigrams
    ELSE ExtractLoop(bytes, i + 1,
            append_if_unique(trigrams,
                Pack(bytes[i + 1], bytes[i + 2], bytes[i + 3])))

\* pub fn extract_trigrams(s: &str) -> Vec<T>
extract_trigrams(s) ==
    IF Len(s) < 3 THEN <<>> ELSE ExtractLoop(s, 0, <<>>)

\* the loop of extract_all_trigrams from position i (0-based) on
RECURSIVE ExtractAllLoop(_, _, _)
ExtractAllLoop(bytes, i, trigrams) ==
    IF i > Len(bytes) - 3 THEN trigrams
    ELSE ExtractAllLoop(bytes, i + 1,
            Append(trigrams, Pack(bytes[i + 1], bytes[i + 2], bytes[i + 3])))

\* pub fn extract_all_trigrams(s: &str, trigrams: &mut Vec<T>)
\* bytes.len() - 3 is a usize subtraction with no guard. For a string of
\* fewer than three bytes it panics in a build with overflow checks; in a
\* build without them it wraps to 2^64 - 3 + len and the first pass of the
\* loop reads bytes[i + 2] past the end, which panics too. Either way
\* nothing has been pushed.
extract_all_trigrams(s, trigrams) ==
    IF Len(s) < 3 THEN [panic |-> TRUE, trigrams |-> trigrams]
    ELSE [panic |-> FALSE, trigrams |-> ExtractAllLoop(s, 0, trigrams)]

\* LastDiffers without the test of the last element: every trigram
\* occurrence pushes the id
LastDiffersAlways(l, id) == TRUE

\* Vec::last() differs from id, or there is no last element
LastDiffers(l, id) == Len(l) = 0 \/ l[Len(l)] # id

\* HashMap::insert
MapInsert(m, k, v) == (k :> v) @@ m

(***************************************************************************)
(* Construction                                                            *)
(***************************************************************************)
\* new_with_documents, the loop over the trigrams of one document
\* (lines 123-140), from the i-th trigram (0-based) on
RECURSIVE ConstructLoop(_, _, _, _)
ConstructLoop(m, trigrams, i, docid) ==
    IF i >= Len(trigrams) THEN [panic |-> FALSE, idx |-> m]
    ELSE LET t == trigrams[i + 1] IN
         IF t \notin DOMAIN m
         THEN ConstructLoop(MapInsert(m, t, List(<<docid>>)), trigrams, i + 1, docid)
         ELSE IF m[t].tag = "Pruned"
         THEN [panic |-> TRUE, idx |-> m]
         ELSE IF LastDiffers(m[t].l, docid)
         THEN ConstructLoop([m EXCEPT ![t] = List(Append(m[t].l, docid))],
                            trigrams, i + 1, docid)
         ELSE ConstructLoop(m, trigrams, i + 1, docid)

\* new_with_documents, the loop over the documents (lines 117-142), from
\* document number id (0-based) on
RECURSIVE DocumentsLoop(_, _, _, _)
DocumentsLoop(m, all_doc_ids, docs, id) ==
    IF id >= Len(docs)
    THEN [panic |-> FALSE, idx |-> m, all_doc_ids |-> all_doc_ids]
    ELSE LET e == extract_all_trigrams(docs[id + 1], <<>>) IN
         IF e.panic
         THEN [panic |-> TRUE, idx |-> m, all_doc_ids |-> all_doc_ids]
         ELSE LET r == ConstructLoop(m, e.trigrams, 0, id) IN
              IF r.panic
              THEN [panic |-> TRUE, idx |-> r.idx, all_doc_ids |-> all_doc_ids]
              ELSE DocumentsLoop(r.idx, Append(all_doc_ids, id), docs, id + 1)

\* pub fn new_with_documents(docs: Vec<&str>) -> Index
\* A panic leaves no index: the map of the result is then the empty one.
new_with_documents(docs) ==
    LET r == DocumentsLoop(<<>>, <<>>, docs, 0) IN
    IF r.panic THEN [panic |-> TRUE, idx |-> <<>>]
    ELSE [panic |-> FALSE,
          idx |-> MapInsert(r.idx, ALL_DOC_IDS, List(r.all_doc_ids))]

(***************************************************************************)
(* Insertion                                                               *)
(***************************************************************************)
\* InsertLoop that gives a trigram with no entry an empty list
RECURSIVE InsertLoopEmptyNew(_, _, _, _)
InsertLoopEmptyNew(m, ts, i, id) ==
    IF i >= Len(ts) THEN m
    ELSE LET t == ts[i + 1] IN
         IF t \notin DOMAIN m
         THEN InsertLoopEmptyNew(MapInsert(m, t, List(<<>>)), ts, i + 1, id)
         ELSE IF m[t].tag = "Pruned"
         THEN InsertLoopEmptyNew(m, ts, i + 1, id)
         ELSE IF LastDiffers(m[t].l, id)
         THEN InsertLoopEmptyNew([m EXCEPT ![t] = List(Append(m[t].l, id))],
                                 ts, i + 1, id)
         ELSE InsertLoopEmptyNew(m, ts, i + 1, id)

\* insert_trigrams, the loop over ts (lines 168-186), from the i-th
\* trigram (0-based) on. A Pruned posting is left as it is.
RECURSIVE InsertLoop(_, _, _, _)
InsertLoop(m, ts, i, id) ==
    IF i >= Len(ts) THEN m
    ELSE LET t == ts[i + 1] IN
         IF t \notin DOMAIN m
         THEN InsertLoop(MapInsert(m, t, List(<<id>>)), ts, i + 1, id)
         ELSE IF m[t].tag = "Pruned"
         THEN InsertLoop(m, ts, i + 1, id)
         ELSE IF LastDiffers(m[t].l, id)
         THEN InsertLoop([m EXCEPT ![t] = List(Append(m[t].l, id))], ts, i + 1, id)
         ELSE InsertLoop(m, ts, i + 1, id)

\* fn get_all_docs / get_all_docs_mut / copy_all_docs: the list under
\* ALL_DOC_IDS, or a panic when the key is missing (unwrap of None) or its
\* posting is Pruned ("all docs pruned")
AllDocsPanics(m) == ALL_DOC_IDS \notin DOMAIN m \/ m[ALL_DOC_IDS].tag = "Pruned"

get_all_docs(m) == m[ALL_DOC_IDS].l

\* pub fn insert_trigrams(&mut self, ts: &Vec<T>, id: DocID)
\* The postings are updated first and ALL_DOC_IDS is fetched last: a panic
\* there leaves the postings updated.
insert_trigrams(m, ts, id) ==
    LET m1 == InsertLoop(m, ts, 0, id) IN
    IF AllDocsPanics(m1) THEN [panic |-> TRUE, idx |-> m1]
    ELSE [panic |-> FALSE,
          idx |-> [m1 EXCEPT ![ALL_DOC_IDS] = List(Append(get_all_docs(m1), id))]]

\* pub fn insert(&mut self, s: &str, id: DocID)
insert(m, s, id) ==
    LET e == extract_all_trigrams(s, <<>>) IN
    IF e.panic THEN [panic |-> TRUE, idx |-> m]
    ELSE insert_trigrams(m, e.trigrams, id)

\* pub fn add(&mut self, s: &str) -> DocID
add(m, s) ==
    IF AllDocsPanics(m) THEN [panic |-> TRUE, idx |-> m, id |-> 0]
    ELSE LET id == Len(get_all_docs(m))
             r == insert(m, s, id)
         IN [panic |-> r.panic, idx |-> r.idx, id |-> id]

\* pub fn add_trigrams(&mut self, ts: &Vec<T>) -> DocID
add_trigrams(m, ts) ==
    IF AllDocsPanics(m) THEN [panic |-> TRUE, idx |-> m, id |-> 0]
    ELSE LET id == Len(get_all_docs(m))
             r == insert_trigrams(m, ts, id)
         IN [panic |-> r.panic, idx |-> r.idx, id |-> id]

(***************************************************************************)
(* Pruning                                                                 *)
(***************************************************************************)
\* (percent * (len as f64)) as usize, for a percent <<num, den>> whose
\* product with len is exact: the cast truncates
MaxDocuments(percent, len) == (percent[1] * len) \div percent[2]

\* PruneValue that also prunes a list of exactly max_documents ids
PruneValueAtLeast(v, max_documents) ==
    IF v.tag = "Pruned" THEN v
    ELSE IF Len(v.l) >= max_documents THEN Pruned
    ELSE v

\* the match of the prune loop (lines 276-284) on one value
PruneValue(v, max_documents) ==
    IF v.tag = "Pruned" THEN v
    ELSE IF Len(v.l) > max_documents THEN Pruned
    ELSE v

\* pub fn prune(&mut self, percent: f64) -> usize
\* The loop runs over every value of the map (self.0.iter_mut()), the one
\* under ALL_DOC_IDS included.
prune(m, percent) ==
    IF AllDocsPanics(m) THEN [panic |-> TRUE, idx |-> m, pruned |-> 0]
    ELSE LET max_documents == MaxDocuments(percent, Len(get_all_docs(m)))
             m1 == [k \in DOMAIN m |-> PruneValue(m[k], max_documents)]
         IN [panic |-> FALSE, idx |-> m1,
             pruned |-> Cardinality({k \in DOMAIN m :
                 m[k].tag = "List" /\ Len(m[k].l) > max_documents})]

(***************************************************************************)
(* Intersection                                                            *)
(***************************************************************************)
\* while a[aidx] < b[bidx] { aidx += 1; if aidx == a.len() { break 'scan } }
\* The value Len(a) stands for the break: the loop ends normally only with
\* aidx < a.len().
RECURSIVE SkipA(_, _, _, _)
SkipA(a, b, aidx, bidx) ==
    IF a[aidx + 1] < b[bidx + 1]
    THEN IF aidx + 1 = Len(a) THEN Len(a) ELSE SkipA(a, b, aidx + 1, bidx)
    ELSE aidx

\* while a[aidx] > b[bidx] { bidx += 1; if bidx == b.len() { break 'scan } }
RECURSIVE SkipB(_, _, _, _)
SkipB(a, b, aidx, bidx) ==
    IF a[aidx + 1] > b[bidx + 1]
    THEN IF bidx + 1 = Len(b) THEN Len(b) ELSE SkipB(a, b, aidx, bidx + 1)
    ELSE bidx

\* the two inner loops, after the equality test of one pass of 'scan:
\* the cursors they leave and whether they broke out of 'scan
Skips(a, b, aidx, bidx) ==
    LET aidx1 == SkipA(a, b, aidx, bidx) IN
    IF aidx1 = Len(a) THEN [aidx |-> aidx1, bidx |-> bidx, brk |-> TRUE]
    ELSE LET bidx1 == SkipB(a, b, aidx1, bidx) IN
         [aidx |-> aidx1, bidx |-> bidx1, brk |-> bidx1 = Len(b)]

\* the 'scan loop of intersect3 (lines 340-364): the result buffer and
\* ridx it ends with
RECURSIVE Scan3(_, _, _, _, _, _)
Scan3(result, a, b, aidx, bidx, ridx) ==
    IF ~(aidx < Len(a) /\ bidx < Len(b)) THEN [result |-> result, ridx |-> ridx]
    ELSE IF a[aidx + 1] = b[bidx + 1]
    THEN LET result1 == [result EXCEPT ![ridx + 1] = a[aidx + 1]] IN
         IF aidx + 1 = Len(a) \/ bidx + 1 = Len(b)
         THEN [result |-> result1, ridx |-> ridx + 1]
         ELSE LET s == Skips(a, b, aidx + 1, bidx + 1) IN
              IF s.brk THEN [result |-> result1, ridx |-> ridx + 1]
              ELSE Scan3(result1, a, b, s.aidx, s.bidx, ridx + 1)
    ELSE LET s == Skips(a, b, aidx, bidx) IN
         IF s.brk THEN [result |-> result, ridx |-> ridx]
         ELSE Scan3(result, a, b, s.aidx, s.bidx, ridx)

\* truncate that keeps the whole vector
TruncateKeepAll(v, n) == v

\* Vec::truncate
Truncate(v, n) == IF n < Len(v) THEN SubSeq(v, 1, n) ELSE v

\* intersect3 that copies a and never looks at b
intersect3_copy_a(result, a, b) == a

\* fn intersect3(result: &mut Vec<DocID>, a: &Vec<DocID>, b: &Vec<DocID>)
intersect3(result, a, b) ==
    LET r == Scan3(result, a, b, 0, 0, 0) IN Truncate(r.result, r.ridx)

\* the 'scan loop of intersect2 (lines 373-397): a is read and written
RECURSIVE Scan2(_, _, _, _, _)
Scan2(a, b, aidx, bidx, ridx) ==
    IF ~(aidx < Len(a) /\ bidx < Len(b)) THEN [a |-> a, ridx |-> ridx]
    ELSE IF a[aidx + 1] = b[bidx + 1]
    THEN LET a1 == [a EXCEPT ![ridx + 1] = a[aidx + 1]] IN
         IF aidx + 1 = Len(a1) \/ bidx + 1 = Len(b)
         THEN [a |-> a1, ridx |-> ridx + 1]
         ELSE LET s == Skips(a1, b, aidx + 1, bidx + 1) IN
              IF s.brk THEN [a |-> a1, ridx |-> ridx + 1]
              ELSE Scan2(a1, b, s.aidx, s.bidx, ridx + 1)
    ELSE LET s == Skips(a, b, aidx, bidx) IN
         IF s.brk THEN [a |-> a, ridx |-> ridx]
         ELSE Scan2(a, b, s.aidx, s.bidx, ridx)

\* fn intersect2(a: &mut Vec<DocID>, b: &Vec<DocID>)
intersect2(a, b) ==
    LET r == Scan2(a, b, 0, 0, 0) IN Truncate(r.a, r.ridx)

(***************************************************************************)
(* Filter and query                                                        *)
(***************************************************************************)
\* result.resize(docs.len(), DocID(0)) on an empty result
Zeros(n) == [k \in 1..n |-> 0]

\* FilterLoop that passes over a trigram with no entry as it passes over
\* a Pruned one
RECURSIVE FilterLoopSkipMissing(_, _, _, _, _, _)
FilterLoopSkipMissing(m, docs, ts, i, result, first) ==
    IF i >= Len(ts) THEN result
    ELSE LET t == ts[i + 1] IN
         IF t \notin DOMAIN m \/ m[t].tag = "Pruned"
         THEN FilterLoopSkipMissing(m, docs, ts, i + 1, result, first)
         ELSE IF first
         THEN FilterLoopSkipMissing(m, docs, ts, i + 1,
                                    intersect3(result, docs, m[t].l), FALSE)
         ELSE FilterLoopSkipMissing(m, docs, ts, i + 1,
                                    intersect2(result, m[t].l), FALSE)

\* the loop of filter (lines 308-325) from the i-th trigram (0-based) on
RECURSIVE FilterLoop(_, _, _, _, _, _)
FilterLoop(m, docs, ts, i, result, first) ==
    IF i >= Len(ts) THEN result
    ELSE LET t == ts[i + 1] IN
         IF t \notin DOMAIN m THEN <<>>
         ELSE IF m[t].tag = "Pruned"
         THEN FilterLoop(m, docs, ts, i + 1, result, first)
         ELSE IF first
         THEN FilterLoop(m, docs, ts, i + 1, intersect3(result, docs, m[t].l), FALSE)
         ELSE FilterLoop(m, docs, ts, i + 1, intersect2(result, m[t].l), FALSE)

\* pub fn filter(&self, docs: &Vec<DocID>, ts: Vec<T>) -> Vec<DocID>
filter(m, docs, ts) ==
    IF Len(ts) = 0 THEN docs
    ELSE FilterLoop(m, docs, ts, 0, Zeros(Len(docs)), TRUE)

\* struct TermFrequency, as pushed by the loop of lines 223-235
TermFrequency(m, t) ==
    [t |-> t, freq |-> IF m[t].tag = "Pruned" THEN 0 ELSE Len(m[t].l)]

Freqs(m, trigrams) == [k \in 1..Len(trigrams) |-> TermFrequency(m, trigrams[k])]

\* the permutations of 1..n
Perms(n) == {p \in [1..n -> 1..n] : \A i, j \in 1..n : i # j => p[i] # p[j]}

\* a sort that leaves freqs in the order of the query
sort_keep_order(freqs) == {freqs}

\* freqs.sort_unstable(): TermFrequency is ordered by freq alone and the
\* order the sort leaves equal elements in is not specified, so every
\* rearrangement of freqs that ascends by freq is a possible outcome
sort_unstable(freqs) ==
    { [k \in 1..Len(freqs) |-> freqs[p[k]]] : p \in
        {q \in Perms(Len(freqs)) :
            \A i, j \in 1..Len(freqs) : i < j => freqs[q[i]].freq <= freqs[q[j]].freq} }

\* while nonzero < freqs.len() && freqs[nonzero].freq == 0 { nonzero += 1 }
RECURSIVE Nonzero(_, _)
Nonzero(freqs, nonzero) ==
    IF nonzero < Len(freqs) /\ freqs[nonzero + 1].freq = 0
    THEN Nonzero(freqs, nonzero + 1)
    ELSE nonzero

\* query_trigrams from the sorted freqs on (lines 239-266)
QuerySorted(m, freqs) ==
    LET nonzero == Nonzero(freqs, 0) IN
    IF nonzero = Len(freqs)
    THEN IF AllDocsPanics(m) THEN [panic |-> TRUE, ids |-> <<>>]
         ELSE [panic |-> FALSE, ids |-> get_all_docs(m)]
    ELSE LET ts == [k \in 1..(Len(freqs) - nonzero) |-> freqs[nonzero + k].t]
             first == ts[1]
             rest == SubSeq(ts, 2, Len(ts))
         IN IF first \notin DOMAIN m \/ m[first].tag = "Pruned"
            THEN [panic |-> FALSE, ids |-> <<>>]
            ELSE [panic |-> FALSE, ids |-> filter(m, m[first].l, rest)]

\* pub fn query_trigrams(&self, trigrams: Vec<T>) -> Vec<DocID>
\* The set of the results it can return, one for each outcome of the sort.
query_trigrams(m, trigrams) ==
    IF Len(trigrams) = 0
    THEN IF AllDocsPanics(m) THEN {[panic |-> TRUE, ids |-> <<>>]}
         ELSE {[panic |-> FALSE, ids |-> get_all_docs(m)]}
    ELSE IF \E k \in 1..Len(trigrams) : trigrams[k] \notin DOMAIN m
    THEN {[panic |-> FALSE, ids |-> <<>>]}
    ELSE {QuerySorted(m, freqs) : freqs \in sort_unstable(Freqs(m, trigrams))}

\* pub fn query(&self, s: &str) -> Vec<DocID>
query(m, s) == query_trigrams(m, extract_trigrams(s))

(***************************************************************************)
(* The state machine                                                       *)
(*                                                                         *)
(* idx       the Index (the HashMap)                                       *)
(* corpus    history: for each document inserted so far, in order, the id  *)
(*           it was given, the set of trigrams it holds (win) and the      *)
(*           number of trigram positions it has (len)                      *)
(* panicked  a call has panicked                                           *)
(* last      the last call: its name, its arguments and what it returned   *)
(* run       one call of intersect3 / intersect2 taken statement by          *)
(*           statement: the position in the code (pc), the vectors and the   *)
(*           cursors, and the arguments it was called with (a0, b0)          *)
(***************************************************************************)
\* the ids a caller of insert / insert_trigrams chooses from
DocIDs == 0..MaxDocs

\* what new_with_documents is called with
InitDocs == UNION {[1..n -> DocStrings] : n \in 0..MaxInitDocs}

\* the strictly increasing sequences of ids below n
RECURSIVE Ascending(_)
Ascending(n) ==
    IF n = 0 THEN {<<>>}
    ELSE Ascending(n - 1) \cup {Append(d, n - 1) : d \in Ascending(n - 1)}

\* the history entry of a document given as a byte string / as trigrams
DocOfString(id, s) ==
    [id |-> id, win |-> Windows(s), len |-> IF Len(s) < 3 THEN 0 ELSE Len(s) - 2]

DocOfTrigrams(id, ts) == [id |-> id, win |-> Range(ts), len |-> Len(ts)]

Call(op) ==
    [op |-> op, s |-> <<>>, ts |-> <<>>, docs |-> <<>>, percent |-> <<0, 1>>,
     id |-> 0, ids |-> <<>>, n |-> 0]

\* the ids inserted so far
CorpusIds == {corpus[k].id : k \in 1..Len(corpus)}

\* the caller's side of insert / insert_trigrams: ids are handed out in
\* increasing order
Monotonic(id) == \A d \in CorpusIds : d < id

\* no intersection is being stepped through
NoRun ==
    [pc |-> "idle", alias |-> FALSE, a0 |-> <<>>, b0 |-> <<>>, a |-> <<>>,
     b |-> <<>>, result |-> <<>>, aidx |-> 0, bidx |-> 0, ridx |-> 0]

Init ==
    \E docs \in InitDocs :
        LET r == new_with_documents(docs) IN
        /\ idx = r.idx
        /\ panicked = r.panic
        /\ corpus = IF r.panic THEN <<>>
                    ELSE [k \in 1..Len(docs) |-> DocOfString(k - 1, docs[k])]
        /\ last = Call("new_with_documents")
        /\ run = NoRun

Add(s) ==
    /\ ~panicked
    /\ Len(corpus) < MaxDocs
    /\ LET r == add(idx, s) IN
       /\ idx' = r.idx
       /\ panicked' = r.panic
       /\ corpus' = IF r.panic THEN corpus
                    ELSE Append(corpus, DocOfString(r.id, s))
       /\ last' = [Call("add") EXCEPT !.s = s, !.id = r.id]
    /\ UNCHANGED run

AddTrigrams(ts) ==
    /\ ~panicked
    /\ Len(corpus) < MaxDocs
    /\ LET r == add_trigrams(idx, ts) IN
       /\ idx' = r.idx
       /\ panicked' = r.panic
       /\ corpus' = IF r.panic THEN corpus
                    ELSE Append(corpus, DocOfTrigrams(r.id, ts))
       /\ last' = [Call("add_trigrams") EXCEPT !.ts = ts, !.id = r.id]
    /\ UNCHANGED run

Insert(s, id) ==
    /\ ~panicked
    /\ Len(corpus) < MaxDocs
    /\ Monotonic(id)
    /\ LET r == insert(idx, s, id) IN
       /\ idx' = r.idx
       /\ panicked' = r.panic
       /\ corpus' = IF r.panic THEN corpus
                    ELSE Append(corpus, DocOfString(id, s))
       /\ last' = [Call("insert") EXCEPT !.s = s, !.id = id]
    /\ UNCHANGED run

InsertTrigrams(ts, id) ==
    /\ ~panicked
    /\ Len(corpus) < MaxDocs
    /\ Monotonic(id)
    /\ LET r == insert_trigrams(idx, ts, id) IN
       /\ idx' = r.idx
       /\ panicked' = r.panic
       /\ corpus' = IF r.panic THEN corpus
                    ELSE Append(corpus, DocOfTrigrams(id, ts))
       /\ last' = [Call("insert_trigrams") EXCEPT !.ts = ts, !.id = id]
    /\ UNCHANGED run

Prune(percent) ==
    /\ ~panicked
    /\ LET r == prune(idx, percent) IN
       /\ idx' = r.idx
       /\ panicked' = r.panic
       /\ last' = [Call("prune") EXCEPT !.percent = percent, !.n = r.pruned]
    /\ UNCHANGED <<corpus, run>>

Query(s) ==
    /\ ~panicked
    /\ \E r \in query(idx, s) :
        /\ panicked' = r.panic
        /\ last' = [Call("query") EXCEPT !.s = s, !.ids = r.ids]
    /\ UNCHANGED <<idx, corpus, run>>

QueryTrigrams(ts) ==
    /\ ~panicked
    /\ \E r \in query_trigrams(idx, ts) :
        /\ panicked' = r.panic
        /\ last' = [Call("query_trigrams") EXCEPT !.ts = ts, !.ids = r.ids]
    /\ UNCHANGED <<idx, corpus, run>>

Filter(docs, ts) ==
    /\ ~panicked
    /\ last' = [Call("filter") EXCEPT !.docs = docs, !.ts = ts,
                                      !.ids = filter(idx, docs, ts)]
    /\ UNCHANGED <<idx, corpus, panicked, run>>

\* the operations that change the index
Next ==
    \/ \E s \in DocStrings : Add(s)
    \/ \E ts \in TsDocuments : AddTrigrams(ts)
    \/ \E s \in DocStrings, id \in DocIDs : Insert(s, id)
    \/ \E ts \in TsDocuments, id \in DocIDs : InsertTrigrams(ts, id)
    \/ \E percent \in Percents : Prune(percent)

Spec == Init /\ [][Next]_vars

\* an index built by new_with_documents, extended by add, pruned and
\* queried by string
NextQuery ==
    \/ \E s \in DocStrings : Add(s)
    \/ \E percent \in Percents : Prune(percent)
    \/ \E s \in QueryStrings : Query(s)

SpecQuery == Init /\ [][NextQuery]_vars

\* the same with no prune
NextNoPrune ==
    \/ \E s \in DocStrings : Add(s)
    \/ \E s \in QueryStrings : Query(s)

SpecNoPrune == Init /\ [][NextNoPrune]_vars

\* an index built by new_with_documents, extended by add, pruned, and
\* read by trigram sequence
NextFilter ==
    \/ \E s \in DocStrings : Add(s)
    \/ \E percent \in Percents : Prune(percent)
    \/ \E ts \in TsInputs : QueryTrigrams(ts)
    \/ \E docs \in Ascending(MaxDocs), ts \in TsInputs : Filter(docs, ts)

SpecFilter == Init /\ [][NextFilter]_vars

\* an index built by new_with_documents, extended by add and insert,
\* pruned, and queried by trigram sequence
NextQueryTrigrams ==
    \/ \E s \in DocStrings : Add(s)
    \/ \E s \in DocStrings, id \in DocIDs : Insert(s, id)
    \/ \E percent \in Percents : Prune(percent)
    \/ \E ts \in TsInputs : QueryTrigrams(ts)

SpecQueryTrigrams == Init /\ [][NextQueryTrigrams]_vars

(***************************************************************************)
(* intersect3 and intersect2 statement by statement                        *)
(*                                                                         *)
(* The two functions have the same text but for the vector the matches are *)
(* written to: result in intersect3, a itself in intersect2 (run.alias).   *)
(* An index out of bounds panics. pc is "scan" at the test of the 'scan    *)
(* loop, "eq" at the if, "skipA" and "skipB" at the tests of the two inner *)
(* loops, "truncate" after the loop, then "done".                          *)
(***************************************************************************)

\* the vector the matches are written to
Out(r) == IF r.alias THEN r.a ELSE r.result

\* the two reads a[aidx], b[bidx] are within bounds
ReadsInBounds(r) == r.aidx < Len(r.a) /\ r.bidx < Len(r.b)

\* a scan that never breaks after a match
BreakNever(a, b, aidx, bidx) == FALSE

\* if aidx == a.len() || bidx == b.len() { break 'scan; } after a match
BreakAfterMatch(a, b, aidx, bidx) == aidx = Len(a) \/ bidx = Len(b)

\* StoreMatch that writes one place further
StoreMatchAhead(r) ==
    IF r.ridx + 1 >= Len(Out(r)) THEN [r EXCEPT !.pc = "panic"]
    ELSE LET w == IF r.alias
                  THEN [r EXCEPT !.a[r.ridx + 2] = r.a[r.aidx + 1]]
                  ELSE [r EXCEPT !.result[r.ridx + 2] = r.a[r.aidx + 1]]
         IN [w EXCEPT !.ridx = @ + 1, !.aidx = @ + 1, !.bidx = @ + 1]

\* result[ridx] = a[aidx] (a[ridx] = a[aidx] in intersect2) and the three
\* increments
StoreMatch(r) ==
    IF r.ridx >= Len(Out(r)) THEN [r EXCEPT !.pc = "panic"]
    ELSE LET w == IF r.alias
                  THEN [r EXCEPT !.a[r.ridx + 1] = r.a[r.aidx + 1]]
                  ELSE [r EXCEPT !.result[r.ridx + 1] = r.a[r.aidx + 1]]
         IN [w EXCEPT !.ridx = @ + 1, !.aidx = @ + 1, !.bidx = @ + 1]

\* the calls: intersect3(result, a, b) with the buffer filter gives it
\* (docs.len() zeros) and intersect2(a, b), on strictly increasing a and b
InitIntersect ==
    /\ idx = new_with_documents(<<>>).idx
    /\ corpus = <<>>
    /\ panicked = FALSE
    /\ last = Call("new_with_documents")
    /\ \E a \in Ascending(MaxElems), b \in Ascending(MaxElems),
          alias \in BOOLEAN :
        run = [pc |-> "scan", alias |-> alias, a0 |-> a, b0 |-> b, a |-> a,
               b |-> b, result |-> IF alias THEN <<>> ELSE Zeros(Len(a)),
               aidx |-> 0, bidx |-> 0, ridx |-> 0]

\* a statement of the run leaves the index alone; a panic ends the process
Step(r) ==
    /\ run' = r
    /\ panicked' = (r.pc = "panic")
    /\ UNCHANGED <<idx, corpus, last>>

\* 'scan: while aidx < a.len() && bidx < b.len()
ScanTest ==
    /\ ~panicked /\ run.pc = "scan"
    /\ Step([run EXCEPT !.pc = IF ReadsInBounds(run) THEN "eq" ELSE "truncate"])

\* if a[aidx] == b[bidx] { ... }
Match ==
    /\ ~panicked /\ run.pc = "eq"
    /\ IF ~ReadsInBounds(run) THEN Step([run EXCEPT !.pc = "panic"])
       ELSE IF run.a[run.aidx + 1] = run.b[run.bidx + 1]
       THEN LET w == StoreMatch(run) IN
            IF w.pc = "panic" THEN Step(w)
            ELSE IF BreakAfterMatch(w.a, w.b, w.aidx, w.bidx)
            THEN Step([w EXCEPT !.pc = "truncate"])
            ELSE Step([w EXCEPT !.pc = "skipA"])
       ELSE Step([run EXCEPT !.pc = "skipA"])

\* while a[aidx] < b[bidx] { aidx += 1; if aidx == a.len() { break 'scan } }
AdvanceA ==
    /\ ~panicked /\ run.pc = "skipA"
    /\ IF ~ReadsInBounds(run) THEN Step([run EXCEPT !.pc = "panic"])
       ELSE IF run.a[run.aidx + 1] < run.b[run.bidx + 1]
       THEN Step([run EXCEPT !.aidx = @ + 1,
                             !.pc = IF run.aidx + 1 = Len(run.a)
                                    THEN "truncate" ELSE "skipA"])
       ELSE Step([run EXCEPT !.pc = "skipB"])

\* while a[aidx] > b[bidx] { bidx += 1; if bidx == b.len() { break 'scan } }
AdvanceB ==
    /\ ~panicked /\ run.pc = "skipB"
    /\ IF ~ReadsInBounds(run) THEN Step([run EXCEPT !.pc = "panic"])
       ELSE IF run.a[run.aidx + 1] > run.b[run.bidx + 1]
       THEN Step([run EXCEPT !.bidx = @ + 1,
                             !.pc = IF run.bidx + 1 = Len(run.b)
                                    THEN "truncate" ELSE "skipB"])
       ELSE Step([run EXCEPT !.pc = "scan"])

\* result.truncate(ridx) / a.truncate(ridx) and the return
TruncateOut ==
    /\ ~panicked /\ run.pc = "truncate"
    /\ IF run.alias
       THEN Step([run EXCEPT !.a = Truncate(@, run.ridx), !.pc = "done"])
       ELSE Step([run EXCEPT !.result = Truncate(@, run.ridx), !.pc = "done"])

NextIntersect ==
    \/ ScanTest
    \/ Match
    \/ AdvanceA
    \/ AdvanceB
    \/ TruncateOut

\* a call that has started runs on: each statement is taken in the end
SpecIntersect ==
    InitIntersect /\ [][NextIntersect]_vars /\ WF_vars(NextIntersect)

(***************************************************************************)
(* Properties                                                              *)
(***************************************************************************)
StrictlyIncreasing(seq) == \A i, j \in 1..Len(seq) : i < j => seq[i] < seq[j]

\* 0, 1, ..., n - 1
IdSeq(n) == [k \in 1..n |-> k - 1]

\* an index exists (new_with_documents returned)
HasIndex == ALL_DOC_IDS \in DOMAIN idx

IsList(t) == t \in DOMAIN idx /\ idx[t].tag = "List"

IsPruned(t) == t \in DOMAIN idx /\ idx[t].tag = "Pruned"

\* a document with id d holds trigram t
Holds(d, t) == \E k \in 1..Len(corpus) : corpus[k].id = d /\ t \in corpus[k].win

\* C1: whatever documents were inserted and whatever was pruned, the
\* posting under ALL_DOC_IDS is a List, never Pruned.
C1_AllDocsNeverPruned == HasIndex => idx[ALL_DOC_IDS].tag = "List"

\* C2: after any sequence of add and prune, an add of a document of three
\* bytes or more has completed, and ALL_DOC_IDS holds 0, 1, ..., n - 1 for
\* the n documents inserted so far.
C2_AllDocsIsIdSeq ==
    /\ (last.op = "add" /\ Len(last.s) >= 3) => ~panicked
    /\ HasIndex => idx[ALL_DOC_IDS] = List(IdSeq(Len(corpus)))

\* C3: a prune(p) that directly follows a prune(p) returns 0.
C3_PruneIdempotent ==
    [][(last.op = "prune" /\ ~panicked /\ last'.op = "prune"
            /\ last'.percent = last.percent)
        => (~panicked' /\ last'.n = 0)]_vars

\* what filter(docs, ts) is to return: the elements of docs that are in
\* every List posting of a trigram of ts
FilterExpected(docs, ts) ==
    SelectSeq(docs, LAMBDA d : \A t \in Range(ts) : IsList(t) => Contains(idx[t].l, d))

\* C4: for a strictly increasing docs and a ts whose trigrams all have an
\* entry, filter(docs, ts) is the elements of docs that are in every List
\* posting of ts; Pruned postings constrain nothing, so with ts empty or
\* all Pruned the result is docs.
C4_FilterContract ==
    (last.op = "filter" /\ \A t \in Range(last.ts) : t \in DOMAIN idx)
        => last.ids = FilterExpected(last.docs, last.ts)

\* C5, as claimed: every id that query(q) returns is of a document that
\* holds every three-byte window of q, also after a prune.
C5_QuerySoundAllTrigrams ==
    (last.op = "query" /\ ~panicked)
        => \A d \in Range(last.ids) : \A t \in Windows(last.s) : Holds(d, t)

\* C5, amended: every id that query(q) returns is of a document that holds
\* every three-byte window of q whose posting is a List (has not been
\* pruned).
C5_QuerySoundUnprunedTrigrams ==
    (last.op = "query" /\ ~panicked)
        => \A d \in Range(last.ids) : \A t \in Windows(last.s) : IsList(t) => Holds(d, t)

\* a query of two trigrams, one pruned and one not, that returned some
\* but not all of the documents
C5_Witness ==
    /\ last.op = "query" /\ ~panicked
    /\ \E t \in Windows(last.s) : IsPruned(t)
    /\ \E t \in Windows(last.s) : IsList(t)
    /\ Len(last.ids) > 0 /\ Len(last.ids) < Len(corpus)

\* C6: with no prune, query(q) is the ascending list of the ids of the
\* documents that hold every three-byte window of q.
C6_QueryExactNoPrune ==
    last.op = "query"
        => /\ ~panicked
           /\ last.ids = SelectSeq(IdSeq(Len(corpus)),
                            LAMBDA d : \A t \in Windows(last.s) : Holds(d, t))

\* a query of two trigrams that returned a document which repeats a
\* trigram, and left another document out
C6_Witness ==
    /\ last.op = "query"
    /\ Cardinality(Windows(last.s)) = 2
    /\ Len(last.ids) < Len(corpus)
    /\ \E k \in 1..Len(corpus) :
        /\ Contains(last.ids, corpus[k].id)
        /\ corpus[k].len > Cardinality(corpus[k].win)

\* C7: a prune only widens the result of a query: what query(q) returned
\* before the prune it returns after it.
C7_PruneMonotone ==
    [][(last'.op = "prune" /\ ~panicked')
        => \A q \in QueryStrings : \A r \in query(idx, q) : \A r2 \in query(idx', q) :
            ~r.panic => (~r2.panic /\ Range(r.ids) \subseteq Range(r2.ids))]_vars

\* C8: a query of fewer than three bytes returns every id inserted so far
\* in ascending order.
C8_ShortQueryAllDocs ==
    (last.op = "query" /\ Len(last.s) < 3)
        => (~panicked /\ last.ids = [k \in 1..Len(corpus) |-> corpus[k].id])

\* C9: the results of query_trigrams and of filter (on a strictly
\* increasing docs) are strictly increasing.
C9_SortedOutput ==
    last.op \in {"query", "query_trigrams", "filter"} => StrictlyIncreasing(last.ids)

\* C10: with insert / insert_trigrams given increasing ids, every List
\* posting, the one under ALL_DOC_IDS included, is strictly increasing.
C10_PostingsSorted ==
    \A t \in DOMAIN idx : idx[t].tag = "List" => StrictlyIncreasing(idx[t].l)

\* C11: add accepts a document of fewer than three bytes: on an index
\* whose ALL_DOC_IDS is a List the call completes and the document is
\* given the id it returns, with no trigram.
C11_ShortDocumentAdded ==
    (last.op = "add" /\ Len(last.s) < 3 /\ IsList(ALL_DOC_IDS))
        => /\ ~panicked
           /\ Len(corpus) > 0
           /\ corpus[Len(corpus)] = DocOfString(last.id, last.s)

\* C12: query_trigrams of a non-empty ts whose trigrams are all Pruned
\* returns every id inserted so far, in order.
C12_AllPrunedQuery ==
    (last.op = "query_trigrams" /\ Len(last.ts) > 0
            /\ \A t \in Range(last.ts) : IsPruned(t))
        => (~panicked /\ last.ids = [k \in 1..Len(corpus) |-> corpus[k].id])

\* C13: prune returns the number of trigram keys, ALL_DOC_IDS not
\* counted, whose posting the call changed from List to Pruned.
C13_PruneCount ==
    [][(last'.op = "prune" /\ ~panicked')
        => last'.n = Cardinality({t \in DOMAIN idx \ {ALL_DOC_IDS} :
                        idx[t].tag = "List" /\ idx'[t].tag = "Pruned"})]_vars

\* C14: when a trigram of ts has no entry in the index, query_trigrams(ts)
\* and filter(docs, ts) return the empty sequence, wherever that trigram
\* is in ts and whatever the other trigrams are.
C14_MissingTrigramEmpty ==
    (last.op \in {"query_trigrams", "filter"}
            /\ \E t \in Range(last.ts) : t \notin DOMAIN idx)
        => (~panicked /\ last.ids = <<>>)

\* a filter whose first trigram is a List that holds one of docs and whose
\* second trigram has no entry
C14_Witness ==
    /\ last.op = "filter"
    /\ Len(last.ts) = 2
    /\ IsList(last.ts[1])
    /\ last.ts[2] \notin DOMAIN idx
    /\ \E d \in Range(last.docs) : Contains(idx[last.ts[1]].l, d)

\* floor(percent * n) for a percent <<num, den>>
Threshold(percent, n) ==
    CHOOSE k \in 0..n : k * percent[2] <= percent[1] * n
                        /\ percent[1] * n < (k + 1) * percent[2]

\* C15: prune keeps the keys, turns into Pruned the lists longer than
\* floor(percent * N) and leaves every other posting as it was, a list of
\* exactly that length included.
C15_PruneFrame ==
    [][last'.op = "prune"
        => IF panicked' THEN idx' = idx
           ELSE LET thr == Threshold(last'.percent, Len(idx[ALL_DOC_IDS].l)) IN
                /\ DOMAIN idx' = DOMAIN idx
                /\ \A k \in DOMAIN idx :
                    idx'[k] = IF idx[k].tag = "List" /\ Len(idx[k].l) > thr
                              THEN Pruned ELSE idx[k]]_vars

\* a prune that left a list of exactly the threshold length and pruned a
\* trigram
C15_Witness ==
    /\ last.op = "prune" /\ ~panicked
    /\ \E t \in DOMAIN idx :
        IsList(t) /\ Len(idx[t].l) = Threshold(last.percent, Len(corpus))
    /\ \E t \in DOMAIN idx \ {ALL_DOC_IDS} : IsPruned(t)

\* the trigrams of the document of an inserting call
DocTrigrams(call) == Windows(call.s) \cup Range(call.ts)

\* C16: a Pruned posting stays Pruned, and an add / add_trigrams / insert /
\* insert_trigrams of a document that holds a pruned trigram appends the
\* document's id to the list of each of its trigrams that is not pruned.
C16_TombstonesPermanent ==
    [][/\ \A t \in DOMAIN idx : idx[t].tag = "Pruned" => IsPruned(t)'
       /\ (/\ last'.op \in {"add", "add_trigrams", "insert", "insert_trigrams"}
           /\ \E t \in DocTrigrams(last') : IsPruned(t))
           => \A u \in DocTrigrams(last') :
                IsList(u) => /\ idx'[u].tag = "List"
                             /\ Len(idx'[u].l) = Len(idx[u].l) + 1]_vars

\* C20: the list of a trigram key is never empty, so the frequency
\* query_trigrams computes for a trigram is 0 exactly when its posting is
\* Pruned.
C20_TrigramListsNonEmpty ==
    \A t \in DOMAIN idx \ {ALL_DOC_IDS} :
        /\ idx[t].tag = "List" => Len(idx[t].l) > 0
        /\ TermFrequency(idx, t).freq = 0 <=> idx[t].tag = "Pruned"

\* an insertion into an index that holds a list and a pruned trigram
C20_Witness ==
    /\ last.op \in {"add", "add_trigrams", "insert", "insert_trigrams"}
    /\ \E t \in DOMAIN idx \ {ALL_DOC_IDS} : IsList(t)
    /\ \E t \in DOMAIN idx \ {ALL_DOC_IDS} : IsPruned(t)

\* the elements of a that are in b, in the order of a
Common(a, b) == SelectSeq(a, LAMBDA x : x \in Range(b))

\* C17: for strictly increasing a and b and a result buffer of Len(a)
\* places, intersect3 terminates, leaves in result the elements common to
\* a and b in increasing order, and leaves a and b as they were.
C17_Intersect3Result ==
    /\ [](~run.alias =>
            /\ run.a = run.a0 /\ run.b = run.b0
            /\ run.pc = "done" =>
                /\ run.result = Common(run.a0, run.b0)
                /\ StrictlyIncreasing(run.result)
                /\ run.result = intersect3(Zeros(Len(run.a0)), run.a0, run.b0))
    /\ (~run.alias => <>(run.pc = "done"))

\* an intersect3 that returned two or more ids, fewer than a holds, with an
\* element of b that a lacks
C17_Witness ==
    /\ ~run.alias /\ run.pc = "done"
    /\ Len(run.result) >= 2
    /\ Len(run.result) < Len(run.a0)
    /\ \E x \in Range(run.b0) : x \notin Range(run.a0)

\* C18: in intersect3 and intersect2 on strictly increasing a and b, every
\* read of a[aidx] and b[bidx] and every write at ridx is within bounds,
\* so no call panics.
C18_IntersectInBounds ==
    /\ run.pc # "panic"
    /\ run.pc \in {"eq", "skipA", "skipB"} => ReadsInBounds(run)
    /\ (run.pc = "eq" /\ run.a[run.aidx + 1] = run.b[run.bidx + 1])
        => run.ridx < Len(Out(run))

\* a full match: every place of the buffer was written and both cursors
\* stand at the end of their vectors
C18_Witness ==
    /\ run.pc = "truncate"
    /\ Len(run.a0) > 0
    /\ run.aidx = Len(run.a0) /\ run.bidx = Len(run.b0)
    /\ run.ridx = Len(Out(run))

\* C19: intersect2(a, b), which writes into a, leaves in a what
\* intersect3 leaves in its result; ridx never passes aidx, so the places
\* of a not read yet hold what they held at the call.
C19_AliasingSafe ==
    run.alias =>
        /\ run.ridx <= run.aidx
        /\ run.pc \in {"scan", "eq", "skipA", "skipB", "truncate"} =>
            /\ Len(run.a) = Len(run.a0)
            /\ \A k \in (run.aidx + 1)..Len(run.a0) : run.a[k] = run.a0[k]
        /\ run.pc = "done" =>
            /\ run.a = intersect3(Zeros(Len(run.a0)), run.a0, run.b0)
            /\ run.a = intersect2(run.a0, run.b0)

\* an intersect2 that moved an element of a to an earlier place
C19_Witness ==
    /\ run.alias /\ run.pc = "done"
    /\ Len(run.a) >= 2
    /\ \E k \in 1..Len(run.a) : run.a[k] # run.a0[k]

\* C21: two calls of query_trigrams on the same index, with trigram
\* sequences that hold the same set of trigrams (in any order, with or
\* without repeats), return the same ids, however the sort breaks ties.
C21_QueryOrderInsensitive ==
    [][(/\ last.op = "query_trigrams" /\ last'.op = "query_trigrams"
        /\ Range(last.ts) = Range(last'.ts))
        => (~panicked' /\ last'.ids = last.ids)]_vars

\* a query of two different trigrams whose lists differ but are of the
\* same length, so that the sort may put either first, which returned some
\* ids but fewer than either list holds
C21_Witness ==
    /\ last.op = "query_trigrams" /\ ~panicked
    /\ Len(last.ts) = 2
    /\ IsList(last.ts[1]) /\ IsList(last.ts[2])
    /\ idx[last.ts[1]].l # idx[last.ts[2]].l
    /\ Len(idx[last.ts[1]].l) = Len(idx[last.ts[2]].l)
    /\ Len(last.ids) > 0
    /\ Len(last.ids) < Len(idx[last.ts[1]].l)

====
